---------------------------- MODULE Spec2Model ----------------------------
(***************************************************************************)
(* A model of the execution core of revng-orchestra:                       *)
(*   - orchestra/actions/action.py    (Action, dependencies, run)          *)
(*   - orchestra/actions/util         (script runner front-ends)           *)
(*   - orchestra/actions/clone.py     (CloneAction)                        *)
(*   - orchestra/cmds/graph.py        (print_dependencies)                 *)
(* Each part has its own specification (SpecDeps, SpecRun, SpecClone,      *)
(* SpecHead, SpecGraph); the variables of the other parts stay at their    *)
(* initial value.                                                          *)
(***************************************************************************)
EXTENDS Naturals, Integers, Sequences, FiniteSets

VARIABLES
    \* ---- action.py: dependency sets
    explicit,       \* Action._explicit_dependencies, per action
    added,          \* history: every dependency ever passed to add_explicit_dependency
    lastAdd,        \* history: the last add_explicit_dependency call and what it saw
    \* ---- action.py / util: running scripts
    fs,             \* the filesystem: the set of paths that exist
    procs,          \* number of subprocesses spawned so far
    lastCall,       \* the last call made by the driver and its outcome
    subprocessDefaultCheck, \* impl's default of check_returncode (not set by get_subprocess_output)
    \* ---- clone.py: configuration and the world outside
    remotes,        \* config.remotes.values(): the mirrors, in priority order
    mirrorUp,       \* the mirrors a clone from which succeeds
    upstream,       \* the branches of the repository on the mirrors
    upstreamHead,   \* its default branch
    strictFlags,    \* whether the runner prepends the abort-on-error prelude
    envHasSourceDir,\* whether config.global_env() defines SOURCE_DIR
    \* ---- clone.py: $SOURCE_DIR and the shell running CloneAction.script
    dir,            \* "absent", "partial" (a clone was cut short) or "cloned"
    localBranches,  \* local branches of the clone
    current,        \* the branch checked out
    originBranches, \* origin/* of the clone
    sh,             \* the shell: status, position in the script, exit code
    executed,       \* history: the commands the current run has executed
    runs,           \* number of runs started
    satQuery,       \* outcome of the last public is_satisfied() call
    \* ---- clone.py: get_remote_head
    localGit,       \* whether $SOURCE_DIR/.git exists
    listing,        \* what "git ls-remote -h --refs" answers for each remote
    headCache,      \* lru_cache of get_remote_head
    lsCache,        \* lru_cache of _ls_remote
    lsRuns,         \* history: how often the body of _ls_remote ran, per (instance, remote)
    headLog,        \* history: the outcomes of the get_remote_head calls, per instance
    \* ---- graph.py: print_dependencies
    gdeps,          \* action.dependencies of each action of the graph
    roots,          \* the actions handed to print_dependencies
    ready,          \* the actions whose is_satisfied() holds
    already_visited_actions,
    rows,
    stack,          \* the recursion of _print_dependencies
    processed,      \* history: how often each action was classified and emitted
    printed         \* what was printed, in order

depVars == <<explicit, added, lastAdd>>
runVars == <<fs, procs, lastCall, subprocessDefaultCheck>>
cloneCfg == <<remotes, mirrorUp, upstream, upstreamHead, strictFlags, envHasSourceDir>>
cloneVars == <<dir, localBranches, current, originBranches, sh, executed, runs, satQuery>>
headVars == <<localGit, listing, headCache, lsCache, lsRuns, headLog>>
graphVars == <<gdeps, roots, ready, already_visited_actions, rows, stack, processed, printed>>
vars == <<depVars, runVars, cloneCfg, cloneVars, headVars, graphVars>>

None == "None"

(***************************************************************************)
(* Bounds                                                                  *)
(***************************************************************************)
NumActions == 3
Actions == 1 .. NumActions
NumPaths == 2
Paths == 1 .. NumPaths
MaxExit == 2
ExitCodes == 0 .. MaxExit
MaxProcs == 3

NumMirrors == 2
Mirrors == 1 .. NumMirrors
MaxRuns == 2

NumInstances == 2
Instances == 1 .. NumInstances
MaxCalls == 2

NumNodes == 4
Nodes == 1 .. NumNodes
MaxEdges == 4
MaxRoots == 2

(***************************************************************************)
(* action.py: dependencies                                                 *)
(***************************************************************************)

\* No add_explicit_dependency call has been made yet.
NoAdd == [called |-> FALSE, target |-> 0, dep |-> 0, before |-> {},
          depsBefore |-> {}, hashBefore |-> {}]

\* Action.__init__: self._explicit_dependencies = set()
ActionInit ==
    /\ explicit = [a \in Actions |-> {}]
    /\ added = [a \in Actions |-> {}]
    /\ lastAdd = NoAdd

\* Action._implicit_dependencies: return set()
_implicit_dependencies(a) == {}

\* Action._implicit_dependencies_for_hash: return self._implicit_dependencies()
_implicit_dependencies_for_hash(a) == _implicit_dependencies(a)

\* Action.dependencies
dependencies(a) == explicit[a] \cup _implicit_dependencies(a)

\* Action.dependencies_for_hash
dependencies_for_hash(a) == explicit[a] \cup _implicit_dependencies_for_hash(a)

\* A plausible slip: the dependency replaces the set instead of joining it.
add_explicit_dependency_assign(a, d) ==
    explicit' = [explicit EXCEPT ![a] = {d}]

\* Action.add_explicit_dependency: self._explicit_dependencies.add(dependency)
add_explicit_dependency(a, d) ==
    explicit' = [explicit EXCEPT ![a] = @ \cup {d}]

\* The dependency-wiring pass: any action may be given any dependency.
AddExplicitDependency ==
    \E a \in Actions, d \in Actions :
        /\ add_explicit_dependency(a, d)
        /\ added' = [added EXCEPT ![a] = @ \cup {d}]
        /\ lastAdd' = [called |-> TRUE, target |-> a, dep |-> d,
                       before |-> explicit[a],
                       depsBefore |-> dependencies(a),
                       hashBefore |-> dependencies_for_hash(a)]
        /\ UNCHANGED <<runVars, cloneCfg, cloneVars, headVars, graphVars>>

(***************************************************************************)
(* util/__init__.py and Action.run: running scripts                        *)
(***************************************************************************)

\* A script (or an argv) is what it does when executed: the path it creates
\* or deletes (0: none), the text it writes to stdout and its exit code.
Scripts == [exit : ExitCodes, path : Paths \cup {0}, out : {"", "text"}]

\* Return values of the helpers.
RetNone == [kind |-> "None", code |-> 0, text |-> ""]
RetCode(c) == [kind |-> "int", code |-> c, text |-> ""]
RetText(t) == [kind |-> "str", code |-> 0, text |-> t]
RetPair(c, t) == [kind |-> "tuple", code |-> c, text |-> t]

\* The outcome of a call: the exception raised ("" when it returned), the
\* value returned, the state it leaves, and the functions it went through.
Outcome(raised, ret, f, p, trace) ==
    [raised |-> raised, ret |-> ret, fs |-> f, procs |-> p, trace |-> trace]

NoCall == [fn |-> "", pretend |-> FALSE, kwargs |-> {},
           script |-> [exit |-> 0, path |-> 0, out |-> ""],
           fsBefore |-> {}, procsBefore |-> 0,
           out |-> Outcome("", RetNone, {}, 0, <<>>)]

\* The subprocess itself: one process is spawned, the script's path is
\* created or deleted.
Execute(s, f, p) ==
    [fs |-> IF s.path = 0 THEN f
            ELSE IF s.path \in f THEN f \ {s.path} ELSE f \cup {s.path},
     procs |-> p + 1]

\* impl._run_user_script
_run_user_script(s, check_returncode, f, p) ==
    LET e == Execute(s, f, p) IN
    IF check_returncode /\ s.exit # 0
    THEN Outcome("UserScriptException", RetNone, e.fs, e.procs, <<"_run_user_script", "subprocess">>)
    ELSE Outcome("", RetCode(s.exit), e.fs, e.procs, <<"_run_user_script", "subprocess">>)

\* impl._run_internal_script
_run_internal_script(s, check_returncode, f, p) ==
    LET e == Execute(s, f, p) IN
    IF check_returncode /\ s.exit # 0
    THEN Outcome("InternalScriptException", RetNone, e.fs, e.procs, <<"_run_internal_script", "subprocess">>)
    ELSE Outcome("", RetCode(s.exit), e.fs, e.procs, <<"_run_internal_script", "subprocess">>)

\* impl._get_script_output
_get_script_output(s, check_returncode, f, p) ==
    LET e == Execute(s, f, p) IN
    IF check_returncode /\ s.exit # 0
    THEN Outcome("InternalScriptException", RetNone, e.fs, e.procs, <<"_get_script_output", "subprocess">>)
    ELSE Outcome("", RetPair(s.exit, s.out), e.fs, e.procs, <<"_get_script_output", "subprocess">>)

\* impl._run_internal_subprocess
_run_internal_subprocess(s, check_returncode, f, p) ==
    LET e == Execute(s, f, p) IN
    IF check_returncode /\ s.exit # 0
    THEN Outcome("InternalSubprocessException", RetNone, e.fs, e.procs, <<"_run_internal_subprocess", "subprocess">>)
    ELSE Outcome("", RetCode(s.exit), e.fs, e.procs, <<"_run_internal_subprocess", "subprocess">>)

\* impl._get_subprocess_output
_get_subprocess_output(s, check_returncode, f, p) ==
    LET e == Execute(s, f, p) IN
    IF check_returncode /\ s.exit # 0
    THEN Outcome("InternalSubprocessException", RetNone, e.fs, e.procs, <<"_get_subprocess_output", "subprocess">>)
    ELSE Outcome("", RetPair(s.exit, s.out), e.fs, e.procs, <<"_get_subprocess_output", "subprocess">>)

\* A helper returning nothing: the implementation's value is dropped.
Discard(o) == IF o.raised = "" THEN [o EXCEPT !.ret = RetNone] ELSE o

\* "_, output = ...; return output"
SecondOf(o) == IF o.raised = "" THEN [o EXCEPT !.ret = RetText(o.ret.text)] ELSE o

\* A helper entered through `name`.
Via(name, o) == [o EXCEPT !.trace = <<name>> \o @]

\* run_internal_script
run_internal_script(s, f, p) ==
    Via("run_internal_script", Discard(_run_internal_script(s, TRUE, f, p)))

\* A plausible slip: the try_ helper checks the return code like its sibling.
try_run_internal_script_checked(s, f, p) ==
    Via("try_run_internal_script", _run_internal_script(s, TRUE, f, p))

\* try_run_internal_script
try_run_internal_script(s, f, p) ==
    Via("try_run_internal_script", _run_internal_script(s, FALSE, f, p))

\* run_user_script
run_user_script(s, f, p) ==
    Via("run_user_script", Discard(_run_user_script(s, TRUE, f, p)))

\* get_script_output
get_script_output(s, f, p) ==
    Via("get_script_output", SecondOf(_get_script_output(s, TRUE, f, p)))

\* try_get_script_output
try_get_script_output(s, f, p) ==
    Via("try_get_script_output", _get_script_output(s, FALSE, f, p))

\* run_internal_subprocess
run_internal_subprocess(s, f, p) ==
    Via("run_internal_subprocess", Discard(_run_internal_subprocess(s, TRUE, f, p)))

\* try_run_internal_subprocess
try_run_internal_subprocess(s, f, p) ==
    Via("try_run_internal_subprocess", _run_internal_subprocess(s, FALSE, f, p))

\* get_subprocess_output: check_returncode is not passed
get_subprocess_output(s, f, p) ==
    Via("get_subprocess_output",
        SecondOf(_get_subprocess_output(s, subprocessDefaultCheck, f, p)))

\* try_get_subprocess_output
try_get_subprocess_output(s, f, p) ==
    Via("try_get_subprocess_output", _get_subprocess_output(s, FALSE, f, p))

\* Action._run_user_script
Action_run_user_script(s, f, p) == Via("Action._run_user_script", run_user_script(s, f, p))

\* Action._run: self._run_user_script(self.script); kwargs are not used
Action__run(s, kwargs, f, p) == Via("Action._run", Action_run_user_script(s, f, p))

\* A plausible slip: the pretend flag is not consulted.
Action_run_ignoring_pretend(s, pretend, kwargs, f, p) ==
    Via("Action.run", Action__run(s, kwargs, f, p))

\* Action.run
Action_run(s, pretend, kwargs, f, p) ==
    IF ~pretend
    THEN Via("Action.run", Action__run(s, kwargs, f, p))
    ELSE Outcome("", RetNone, f, p, <<"Action.run">>)

\* The driver makes a call and observes its outcome.
Observe(fn, s, pretend, kwargs, o) ==
    /\ o.procs <= MaxProcs
    /\ fs' = o.fs
    /\ procs' = o.procs
    /\ lastCall' = [fn |-> fn, pretend |-> pretend, kwargs |-> kwargs, script |-> s,
                    fsBefore |-> fs, procsBefore |-> procs, out |-> o]
    /\ UNCHANGED <<subprocessDefaultCheck, depVars, cloneCfg, cloneVars, headVars, graphVars>>

KwargSets == SUBSET {"args"}

Run ==
    \E s \in Scripts, pretend \in BOOLEAN, kw \in KwargSets :
        Observe("Action.run", s, pretend, kw, Action_run(s, pretend, kw, fs, procs))
RunInternalScript ==
    \E s \in Scripts : Observe("run_internal_script", s, FALSE, {}, run_internal_script(s, fs, procs))
TryRunInternalScript ==
    \E s \in Scripts : Observe("try_run_internal_script", s, FALSE, {}, try_run_internal_script(s, fs, procs))
RunUserScript ==
    \E s \in Scripts : Observe("run_user_script", s, FALSE, {}, run_user_script(s, fs, procs))
GetScriptOutput ==
    \E s \in Scripts : Observe("get_script_output", s, FALSE, {}, get_script_output(s, fs, procs))
TryGetScriptOutput ==
    \E s \in Scripts : Observe("try_get_script_output", s, FALSE, {}, try_get_script_output(s, fs, procs))
RunInternalSubprocess ==
    \E s \in Scripts : Observe("run_internal_subprocess", s, FALSE, {}, run_internal_subprocess(s, fs, procs))
TryRunInternalSubprocess ==
    \E s \in Scripts : Observe("try_run_internal_subprocess", s, FALSE, {}, try_run_internal_subprocess(s, fs, procs))
GetSubprocessOutput ==
    \E s \in Scripts : Observe("get_subprocess_output", s, FALSE, {}, get_subprocess_output(s, fs, procs))
TryGetSubprocessOutput ==
    \E s \in Scripts : Observe("try_get_subprocess_output", s, FALSE, {}, try_get_subprocess_output(s, fs, procs))

(***************************************************************************)
(* clone.py: CloneAction.script, run by the shell, and _is_satisfied       *)
(***************************************************************************)

\* Branch names that may exist upstream.
BranchNames == {"develop", "master", "main"}

\* The sentinel the clone's default branch is renamed to.
Sentinel == "orchestra-temporary"

\* Priority lists of distinct mirrors.
RemoteLists ==
    { r \in UNION { [1 .. n -> Mirrors] : n \in 0 .. NumMirrors } :
        \A i, j \in DOMAIN r : i # j => r[i] # r[j] }

\* CloneAction.branches
branches == <<"develop", "master">>

\* Commands of the script.
CloneCmd(m) == [op |-> "clone", mirror |-> m, branch |-> ""]
RenameCmd == [op |-> "branch -m", mirror |-> 0, branch |-> Sentinel]
CheckoutCmd(b) == [op |-> "checkout -b", mirror |-> 0, branch |-> b]
TrueCmd == [op |-> "true", mirror |-> 0, branch |-> ""]

\* A plausible slip: the final fallback is left out.
script_without_fallback ==
    << [i \in 1 .. Len(remotes) |-> CloneCmd(remotes[i])],
       << RenameCmd >>,
       [i \in 1 .. Len(branches) |-> CheckoutCmd(branches[i])] >>

\* CloneAction.script: three lines, each a chain of commands joined by "||".
script ==
    << [i \in 1 .. Len(remotes) |-> CloneCmd(remotes[i])],
       << RenameCmd >>,
       [i \in 1 .. Len(branches) |-> CheckoutCmd(branches[i])] \o << TrueCmd >> >>

\* config.global_env(), as the set of names it defines.
global_env == IF envHasSourceDir THEN {"SOURCE_DIR"} ELSE {}

\* Action.environment; CloneAction derives from Action and inherits it.
environment == global_env

\* A plausible slip: the check looks for the repository inside the directory.
_is_satisfied_repository ==
    IF "SOURCE_DIR" \in environment
    THEN [raised |-> "", value |-> dir = "cloned"]
    ELSE [raised |-> "KeyError", value |-> FALSE]

\* CloneAction._is_satisfied: os.path.exists(self.environment["SOURCE_DIR"])
_is_satisfied ==
    IF "SOURCE_DIR" \in environment
    THEN [raised |-> "", value |-> dir # "absent"]
    ELSE [raised |-> "KeyError", value |-> FALSE]

\* Action.is_satisfied: raise NotImplementedError()
Action_is_satisfied == [raised |-> "NotImplementedError", value |-> FALSE]

\* CloneAction defines _is_satisfied only; is_satisfied is the inherited one.
CloneAction_is_satisfied == Action_is_satisfied

\* Whether a command of the script succeeds in the current state. Without
\* SOURCE_DIR the git commands have no clone to act on.
CmdOk(c) ==
    CASE c.op = "clone" ->
            envHasSourceDir /\ c.mirror \in mirrorUp /\ dir = "absent"
      [] c.op = "branch -m" ->
            envHasSourceDir /\ dir = "cloned" /\ c.branch \notin localBranches
      [] c.op = "checkout -b" ->
            /\ envHasSourceDir /\ dir = "cloned"
            /\ c.branch \in originBranches /\ c.branch \notin localBranches
      [] OTHER -> TRUE

\* What a successful command does to $SOURCE_DIR.
CmdEffect(c) ==
    CASE c.op = "clone" ->
            /\ dir' = "cloned"
            /\ originBranches' = upstream
            /\ localBranches' = {upstreamHead}
            /\ current' = upstreamHead
      [] c.op = "branch -m" ->
            /\ localBranches' = (localBranches \ {current}) \cup {c.branch}
            /\ current' = c.branch
            /\ UNCHANGED <<dir, originBranches>>
      [] c.op = "checkout -b" ->
            /\ localBranches' = localBranches \cup {c.branch}
            /\ current' = c.branch
            /\ UNCHANGED <<dir, originBranches>>
      [] OTHER -> UNCHANGED <<dir, originBranches, localBranches, current>>

Idle == [status |-> "idle", line |-> 0, idx |-> 0, code |-> 0]

\* The shell after the chain on line L ended with exit status `code`.
AfterLine(L, code) ==
    IF code # 0 /\ strictFlags
    THEN [status |-> "failed", line |-> L, idx |-> 0, code |-> code]
    ELSE IF L = Len(script)
    THEN [status |-> IF code = 0 THEN "done" ELSE "failed", line |-> L, idx |-> 0, code |-> code]
    ELSE [status |-> "running", line |-> L + 1, idx |-> 1, code |-> code]

\* The scheduler consults the presence check and runs the action when it is
\* not satisfied: Action.run -> _run -> run_user_script(self.script).
Schedule ==
    /\ sh.status # "running"
    /\ runs < MaxRuns
    /\ runs' = runs + 1
    /\ executed' = <<>>
    /\ sh' = IF _is_satisfied.raised # "" THEN [Idle EXCEPT !.status = "error"]
             ELSE IF _is_satisfied.value THEN [Idle EXCEPT !.status = "satisfied"]
             ELSE IF script[1] = <<>> THEN AfterLine(1, 0)
             ELSE [status |-> "running", line |-> 1, idx |-> 1, code |-> 0]
    /\ UNCHANGED <<dir, localBranches, current, originBranches, satQuery>>
    /\ UNCHANGED <<depVars, runVars, cloneCfg, headVars, graphVars>>

\* The shell executes the command it is at and moves on: to the next command
\* of the chain when it failed, to the next line when it succeeded or the
\* chain is exhausted.
ExecCommand ==
    /\ sh.status = "running"
    /\ LET c == script[sh.line][sh.idx]
           ok == CmdOk(c)
       IN /\ executed' = Append(executed, [op |-> c.op, mirror |-> c.mirror,
                                            branch |-> c.branch, ok |-> ok])
          /\ IF ok THEN CmdEffect(c)
                   ELSE UNCHANGED <<dir, originBranches, localBranches, current>>
          /\ sh' = IF ok THEN AfterLine(sh.line, 0)
                   ELSE IF sh.idx < Len(script[sh.line])
                   THEN [sh EXCEPT !.idx = sh.idx + 1]
                   ELSE AfterLine(sh.line, 1)
    /\ UNCHANGED <<runs, satQuery>>
    /\ UNCHANGED <<depVars, runVars, cloneCfg, headVars, graphVars>>

\* The run is cut short between two commands.
Crash ==
    /\ sh.status = "running"
    /\ sh' = [sh EXCEPT !.status = "crashed"]
    /\ UNCHANGED <<dir, localBranches, current, originBranches, executed, runs, satQuery>>
    /\ UNCHANGED <<depVars, runVars, cloneCfg, headVars, graphVars>>

\* The run is cut short while a clone is writing into $SOURCE_DIR.
CrashDuringClone ==
    /\ sh.status = "running"
    /\ LET c == script[sh.line][sh.idx] IN c.op = "clone" /\ CmdOk(c)
    /\ dir' = "partial"
    /\ sh' = [sh EXCEPT !.status = "crashed"]
    /\ UNCHANGED <<localBranches, current, originBranches, executed, runs, satQuery>>
    /\ UNCHANGED <<depVars, runVars, cloneCfg, headVars, graphVars>>

NoQuery == [asked |-> FALSE, raised |-> "", value |-> FALSE, existed |-> FALSE]

\* A caller asks the public is_satisfied().
QueryIsSatisfied ==
    /\ satQuery' = [asked |-> TRUE,
                    raised |-> CloneAction_is_satisfied.raised,
                    value |-> CloneAction_is_satisfied.value,
                    existed |-> dir # "absent"]
    /\ UNCHANGED <<dir, localBranches, current, originBranches, sh, executed, runs>>
    /\ UNCHANGED <<depVars, runVars, cloneCfg, headVars, graphVars>>

(***************************************************************************)
(* clone.py: CloneAction.get_remote_head and _ls_remote                    *)
(***************************************************************************)

\* functools.lru_cache(): maxsize defaults to 128
LruMaxsize == 128

\* The remotes a lookup may ask: f"{base_url}/{self.repository}" for a
\* mirror, or the path $SOURCE_DIR/.git.
Url(mirror, repository) == [kind |-> "url", mirror |-> mirror, repository |-> repository]
LocalRepo == [kind |-> "path", mirror |-> 0, repository |-> 0]
Remotes == {LocalRepo} \cup { Url(mm, i) : mm \in Mirrors, i \in Instances }

\* A line of "git ls-remote -h --refs": "<commit>\trefs/heads/<branch>", or
\* a line of another form.
RefLine(c, b) == [commit |-> c, prefix |-> "refs/heads/", name |-> b]
OtherLine == [commit |-> "d4", prefix |-> "", name |-> "warning"]

\* What a remote may answer: exit code and standard output.
Listings ==
    { [returncode |-> 128, stdout |-> <<>>],
      [returncode |-> 0, stdout |-> <<>>],
      [returncode |-> 0, stdout |-> << RefLine("a1", "master") >>],
      [returncode |-> 0, stdout |-> << OtherLine, RefLine("b2", "main"),
                                       RefLine("c3", "develop"), RefLine("a1", "master") >>] }

\* The remote's answer comes from the mirror (or the local clone) asked.
Answer(remote) == listing[remote.mirror]

\* Parameters of util.run_script.
RunScriptParams ==
    {"script", "environment", "strict_flags", "cwd", "loglevel", "stdout", "stderr"}

\* impl._run_script: runs the script and returns the CompletedProcess,
\* whatever the exit code.
_run_script(remote) ==
    [raised |-> "", returncode |-> Answer(remote).returncode, stdout |-> Answer(remote).stdout]

\* util.run_script(script, environment, strict_flags, cwd, loglevel, stdout,
\* stderr): a call binds its keyword arguments to these parameters.
run_script(remote, kwargs) ==
    IF kwargs \subseteq RunScriptParams
    THEN _run_script(remote)
    ELSE [raised |-> "TypeError", returncode |-> 0, stdout |-> <<>>]

\* lru_cache: the entries, least recently used first.
CacheIndex(cache, key) ==
    IF \E k \in 1 .. Len(cache) : cache[k].key = key
    THEN CHOOSE k \in 1 .. Len(cache) : cache[k].key = key
    ELSE 0

CacheTouch(cache, k) ==
    SubSeq(cache, 1, k - 1) \o SubSeq(cache, k + 1, Len(cache)) \o << cache[k] >>

CachePut(cache, key, val) ==
    LET c == Append(cache, [key |-> key, val |-> val])
    IN IF Len(c) > LruMaxsize THEN Tail(c) ELSE c

LsKey(i, remote) == [self |-> i, remote |-> remote]

\* CloneAction._ls_remote under lru_cache: the cached text, or the body:
\* run_script(..., quiet=True, environment=..., check_returncode=False)
\* .stdout.decode("utf-8"). `ran` tells whether the body ran.
_ls_remote(i, remote, cache) ==
    LET k == CacheIndex(cache, LsKey(i, remote)) IN
    IF k # 0
    THEN [raised |-> "", text |-> cache[k].val, cache |-> CacheTouch(cache, k), ran |-> FALSE]
    ELSE LET r == run_script(remote, {"script", "quiet", "environment", "check_returncode"}) IN
         IF r.raised # ""
         THEN [raised |-> r.raised, text |-> <<>>, cache |-> cache, ran |-> TRUE]
         ELSE [raised |-> "", text |-> r.stdout,
               cache |-> CachePut(cache, LsKey(i, remote), r.stdout), ran |-> TRUE]

\* re.findall(r"(?P<commit>[a-f0-9]*)\W*refs/heads/(?P<branch>.*)", result)
findall(text) == SelectSeq(text, LAMBDA l : l.prefix = "refs/heads/")

InBranches(b) == \E k \in 1 .. Len(branches) : branches[k] = b

\* The first (commit, branch) match whose branch is in self.branches().
FirstPreferred(matches) ==
    IF \E k \in 1 .. Len(matches) : InBranches(matches[k].name)
    THEN LET k == CHOOSE k \in 1 .. Len(matches) :
                    /\ InBranches(matches[k].name)
                    /\ \A j \in 1 .. k - 1 : ~InBranches(matches[j].name)
         IN matches[k].commit
    ELSE None

\* remotes = [...config.remotes.values()]; if os.path.exists(local_repo):
\* remotes.insert(0, local_repo)
Candidates(i) ==
    (IF localGit THEN << LocalRepo >> ELSE <<>>)
        \o [k \in 1 .. Len(remotes) |-> Url(remotes[k], i)]

\* The loop of get_remote_head over remotes k, k+1, ...: `ran` collects the
\* remotes for which the body of _ls_remote ran.
RECURSIVE Lookup(_, _, _, _, _)
Lookup(i, cands, k, cache, ran) ==
    IF k > Len(cands)
    THEN [raised |-> "", value |-> None, cache |-> cache, ran |-> ran]
    ELSE LET r == _ls_remote(i, cands[k], cache)
             ran2 == IF r.ran THEN Append(ran, cands[k]) ELSE ran
         IN IF r.raised # ""
            THEN [raised |-> r.raised, value |-> None, cache |-> r.cache, ran |-> ran2]
            ELSE IF FirstPreferred(findall(r.text)) # None
            THEN [raised |-> "", value |-> FirstPreferred(findall(r.text)),
                  cache |-> r.cache, ran |-> ran2]
            ELSE Lookup(i, cands, k + 1, r.cache, ran2)

\* The body of CloneAction.get_remote_head.
get_remote_head(i) ==
    IF "SOURCE_DIR" \notin environment
    THEN [raised |-> "KeyError", value |-> None, cache |-> lsCache, ran |-> <<>>]
    ELSE Lookup(i, Candidates(i), 1, lsCache, <<>>)

\* What the lookup is specified to answer: the commit of the first
\* preferred branch listed by the first candidate that lists one; a
\* candidate whose listing failed counts as listing none.
RECURSIVE ExpectedHead(_, _)
ExpectedHead(cands, k) ==
    IF k > Len(cands) THEN None
    ELSE IF FirstPreferred(findall(Answer(cands[k]).stdout)) # None
    THEN FirstPreferred(findall(Answer(cands[k]).stdout))
    ELSE ExpectedHead(cands, k + 1)

Count(seq, x) == Cardinality({ k \in 1 .. Len(seq) : seq[k] = x })

\* A caller asks instance i for its remote head; lru_cache answers from the
\* cache or runs the body and stores what it returns (not what it raises).
CallGetRemoteHead ==
    \E i \in Instances :
        /\ Len(headLog[i]) < MaxCalls
        /\ LET k == CacheIndex(headCache, i) IN
           IF k # 0
           THEN /\ headCache' = CacheTouch(headCache, k)
                /\ headLog' = [headLog EXCEPT ![i] =
                       Append(@, [raised |-> "", value |-> headCache[k].val, cached |-> TRUE,
                                  expected |-> ExpectedHead(Candidates(i), 1),
                                  ran |-> <<>>])]
                /\ UNCHANGED <<lsCache, lsRuns>>
           ELSE LET o == get_remote_head(i) IN
                /\ headCache' = IF o.raised = "" THEN CachePut(headCache, i, o.value)
                                ELSE headCache
                /\ lsCache' = o.cache
                /\ lsRuns' = [key \in DOMAIN lsRuns |->
                                 IF key.self = i THEN lsRuns[key] + Count(o.ran, key.remote)
                                 ELSE lsRuns[key]]
                /\ headLog' = [headLog EXCEPT ![i] =
                       Append(@, [raised |-> o.raised, value |-> o.value, cached |-> FALSE,
                                  expected |-> ExpectedHead(Candidates(i), 1),
                                  ran |-> o.ran])]
        /\ UNCHANGED <<localGit, listing>>
        /\ UNCHANGED <<depVars, runVars, cloneCfg, cloneVars, graphVars>>

\* The clone action creates $SOURCE_DIR/.git, or the directory is removed.
LocalCloneChanges ==
    /\ localGit' = ~localGit
    /\ UNCHANGED <<listing, headCache, lsCache, lsRuns, headLog>>
    /\ UNCHANGED <<depVars, runVars, cloneCfg, cloneVars, graphVars>>

(***************************************************************************)
(* graph.py: print_dependencies                                            *)
(***************************************************************************)

\* Strings are sequences of character codes, so that rows can be compared
\* and sorted the way Python compares str.

\* Action.name: "i" for every action of the graph
action_name == <<105>>

\* Action._target_name: "a", "b", "c", ...
_target_name(a) == << 96 + a >>

\* Action.name_for_info: f"{self.name} {self._target_name}"
name_for_info(a) == action_name \o <<32>> \o _target_name(a)

\* A plausible slip: the label leaves the target out.
name_for_graph_without_target(a) == action_name

\* Action.name_for_graph
name_for_graph(a) == name_for_info(a)

\* The three colours: "green", "orange", "red"
Green == <<103, 114, 101, 101, 110>>
Orange == <<111, 114, 97, 110, 103, 101>>
Red == <<114, 101, 100>>

\* f'  "{action.name_for_graph}"[ shape=box, style=filled, color={color} ];'
NodeRow(a, color) ==
    <<32, 32, 34>> \o name_for_graph(a)
        \o <<34, 91, 32, 115, 104, 97, 112, 101, 61, 98, 111, 120, 44, 32, 115, 116, 121, 108, 101, 61, 102, 105, 108, 108, 101, 100, 44, 32, 99, 111, 108, 111, 114, 61>>
        \o color \o <<32, 93, 59>>

\* f'  "{d.name_for_graph}" -> "{action.name_for_graph}";'
EdgeRow(d, a) ==
    <<32, 32, 34>> \o name_for_graph(d) \o <<34, 32, 45, 62, 32, 34>>
        \o name_for_graph(a) \o <<34, 59>>

\* The actions reachable from a set of actions through their dependencies.
RECURSIVE Closure(_)
Closure(S) ==
    LET T == S \cup UNION { gdeps[a] : a \in S }
    IN IF T = S THEN S ELSE Closure(T)

\* action.is_satisfied(recursively=True): the action and, transitively, all
\* its dependencies report satisfied.
is_satisfied_recursively(a) == Closure({a}) \subseteq ready

\* action.can_run(): every dependency is satisfied.
can_run(a) == \A d \in gdeps[a] : is_satisfied_recursively(d)

\* The colour chosen by the if / elif / else of _print_dependencies.
Color(a) ==
    IF is_satisfied_recursively(a) THEN Green
    ELSE IF can_run(a) THEN Orange
    ELSE Red

\* A plausible slip: the action is never marked as visited.
MarkVisitedForgotten(visited, a) == visited

\* already_visited_actions.add(action)
MarkVisited(visited, a) == visited \cup {a}

\* str.__lt__: comparison by code point, a proper prefix first.
LexLess(s, t) ==
    \E k \in 1 .. Len(t) :
        /\ \A j \in 1 .. k - 1 : j <= Len(s) /\ s[j] = t[j]
        /\ \/ k = Len(s) + 1
           \/ k <= Len(s) /\ s[k] < t[k]

\* sorted(rows)
RECURSIVE sorted(_)
sorted(S) ==
    IF S = {} THEN <<>>
    ELSE LET least == CHOOSE x \in S : \A y \in S : y = x \/ LexLess(x, y)
         IN << least >> \o sorted(S \ {least})

\* The frame of the for loop over the roots in print_dependencies.
TopFrame(as) == [action |-> 0, todo |-> as]

Top == stack[Len(stack)]
Pop == SubSeq(stack, 1, Len(stack) - 1)

\* A for loop (over the roots, or over action.dependencies) takes its next
\* element d and calls _print_dependencies(d, already_visited_actions, rows):
\* the call returns at once for a visited action; otherwise it classifies d,
\* adds its rows, marks it visited and starts the loop over its dependencies.
CallPrintDependencies ==
    /\ stack # <<>>
    /\ \E d \in Top.todo :
        LET advanced == Append(Pop, [Top EXCEPT !.todo = @ \ {d}])
        IN IF d \in already_visited_actions
           THEN /\ stack' = advanced
                /\ UNCHANGED <<already_visited_actions, rows, processed>>
           ELSE /\ rows' = rows \cup {NodeRow(d, Color(d))}
                               \cup { EdgeRow(x, d) : x \in gdeps[d] }
                /\ already_visited_actions' = MarkVisited(already_visited_actions, d)
                /\ processed' = [processed EXCEPT ![d] = @ + 1]
                /\ stack' = Append(advanced, [action |-> d, todo |-> gdeps[d]])
    /\ UNCHANGED <<gdeps, roots, ready, printed>>
    /\ UNCHANGED <<depVars, runVars, cloneCfg, cloneVars, headVars>>

\* The loop over action.dependencies is exhausted: _print_dependencies returns.
ReturnPrintDependencies ==
    /\ stack # <<>>
    /\ Top.action # 0
    /\ Top.todo = {}
    /\ stack' = Pop
    /\ UNCHANGED <<gdeps, roots, ready, already_visited_actions, rows, processed, printed>>
    /\ UNCHANGED <<depVars, runVars, cloneCfg, cloneVars, headVars>>

\* The loop over the roots is exhausted: for r in sorted(rows): print(r).
PrintRows ==
    /\ stack # <<>>
    /\ Top.action = 0
    /\ Top.todo = {}
    /\ printed' = sorted(rows)
    /\ stack' = <<>>
    /\ UNCHANGED <<gdeps, roots, ready, already_visited_actions, rows, processed>>
    /\ UNCHANGED <<depVars, runVars, cloneCfg, cloneVars, headVars>>

\* Number of dependency edges of a graph.
RECURSIVE EdgeCount(_, _)
EdgeCount(g, S) ==
    IF S = {} THEN 0
    ELSE LET a == CHOOSE x \in S : TRUE
         IN Cardinality(g[a]) + EdgeCount(g, S \ {a})

\* The dependency graphs of the model: no action depends on itself.
Graphs ==
    { g \in [Nodes -> SUBSET Nodes] :
        /\ \A a \in Nodes : a \notin g[a]
        /\ EdgeCount(g, Nodes) <= MaxEdges }

\* Everything outside the dependency part, at rest.
RunRest == fs = {} /\ procs = 0 /\ lastCall = NoCall /\ subprocessDefaultCheck = TRUE

CloneRest ==
    /\ remotes = <<>> /\ mirrorUp = {} /\ upstream = {} /\ upstreamHead = ""
    /\ strictFlags = TRUE /\ envHasSourceDir = TRUE
    /\ dir = "absent" /\ localBranches = {} /\ current = "" /\ originBranches = {}
    /\ sh = Idle /\ executed = <<>> /\ runs = 0 /\ satQuery = NoQuery

DepsRest == ActionInit

HeadRest ==
    /\ localGit = FALSE /\ listing = <<>> /\ headCache = <<>> /\ lsCache = <<>>
    /\ lsRuns = <<>> /\ headLog = <<>>

GraphRest ==
    /\ gdeps = <<>> /\ roots = {} /\ ready = {} /\ already_visited_actions = {}
    /\ rows = {} /\ stack = <<>> /\ processed = <<>> /\ printed = <<>>

InitDeps == ActionInit /\ RunRest /\ CloneRest /\ HeadRest /\ GraphRest
NextDeps == AddExplicitDependency
SpecDeps == InitDeps /\ [][NextDeps]_vars

InitRun ==
    /\ DepsRest /\ CloneRest /\ HeadRest /\ GraphRest
    /\ fs \in SUBSET Paths
    /\ procs = 0
    /\ lastCall = NoCall
    /\ subprocessDefaultCheck \in BOOLEAN

NextRun ==
    \/ Run
    \/ RunInternalScript
    \/ TryRunInternalScript
    \/ RunUserScript
    \/ GetScriptOutput
    \/ TryGetScriptOutput
    \/ RunInternalSubprocess
    \/ TryRunInternalSubprocess
    \/ GetSubprocessOutput
    \/ TryGetSubprocessOutput

SpecRun == InitRun /\ [][NextRun]_vars


InitClone ==
    /\ DepsRest /\ RunRest /\ HeadRest /\ GraphRest
    /\ remotes \in RemoteLists
    /\ mirrorUp \in SUBSET Mirrors
    /\ upstream \in SUBSET BranchNames
    /\ upstreamHead \in upstream
    /\ strictFlags \in BOOLEAN
    /\ envHasSourceDir \in BOOLEAN
    /\ dir = "absent" /\ localBranches = {} /\ current = "" /\ originBranches = {}
    /\ sh = Idle /\ executed = <<>> /\ runs = 0 /\ satQuery = NoQuery

NextClone ==
    \/ Schedule
    \/ ExecCommand
    \/ Crash
    \/ CrashDuringClone
    \/ QueryIsSatisfied

SpecClone == InitClone /\ [][NextClone]_vars

InitHead ==
    /\ DepsRest /\ RunRest /\ GraphRest
    /\ remotes \in RemoteLists
    /\ envHasSourceDir \in BOOLEAN
    /\ mirrorUp = {} /\ upstream = {} /\ upstreamHead = "" /\ strictFlags = TRUE
    /\ dir = "absent" /\ localBranches = {} /\ current = "" /\ originBranches = {}
    /\ sh = Idle /\ executed = <<>> /\ runs = 0 /\ satQuery = NoQuery
    /\ localGit \in BOOLEAN
    /\ listing \in [{0} \cup Mirrors -> Listings]
    /\ headCache = <<>>
    /\ lsCache = <<>>
    /\ lsRuns = [key \in { LsKey(i, r) : i \in Instances, r \in Remotes } |-> 0]
    /\ headLog = [i \in Instances |-> <<>>]

NextHead ==
    \/ CallGetRemoteHead
    \/ LocalCloneChanges

SpecHead == InitHead /\ [][NextHead]_vars

InitGraph ==
    /\ DepsRest /\ RunRest /\ CloneRest /\ HeadRest
    /\ gdeps \in Graphs
    /\ roots \in { R \in SUBSET Nodes : Cardinality(R) <= MaxRoots }
    /\ ready \in { 1 .. k : k \in 0 .. NumNodes }
    /\ already_visited_actions = {}
    /\ rows = {}
    /\ stack = << TopFrame(roots) >>
    /\ processed = [a \in Nodes |-> 0]
    /\ printed = <<>>

NextGraph ==
    \/ CallPrintDependencies
    \/ ReturnPrintDependencies
    \/ PrintRows

SpecGraph == InitGraph /\ [][NextGraph]_vars
\* C1: after any sequence of add_explicit_dependency calls, A.dependencies is
\* the union of everything added to A and A._implicit_dependencies(); a call
\* that adds a dependency already present leaves the explicit set, and with it
\* dependencies and dependencies_for_hash, as they were.
C1_DependenciesAreUnion ==
    /\ \A a \in Actions :
          /\ dependencies(a) = added[a] \cup _implicit_dependencies(a)
          /\ dependencies_for_hash(a) = added[a] \cup _implicit_dependencies_for_hash(a)
    /\ (lastAdd.called /\ lastAdd.dep \in lastAdd.before) =>
          /\ explicit[lastAdd.target] = lastAdd.before
          /\ dependencies(lastAdd.target) = lastAdd.depsBefore
          /\ dependencies_for_hash(lastAdd.target) = lastAdd.hashBefore

\* A dependency was added twice to an action that holds two dependencies.
C1_Witness ==
    /\ lastAdd.called
    /\ lastAdd.dep \in lastAdd.before
    /\ Cardinality(explicit[lastAdd.target]) >= 2

InTrace(name, o) == \E i \in 1 .. Len(o.trace) : o.trace[i] = name

\* C2: Action.run(pretend=True) never reaches the execution step: no
\* subprocess is spawned and no path is created or deleted, whatever the
\* kwargs; Action._run (which runs the script as a user script) is entered
\* exactly when pretend is false.
C2_PretendHasNoEffect ==
    lastCall.fn = "Action.run" =>
        /\ InTrace("Action._run", lastCall.out) <=> ~lastCall.pretend
        /\ InTrace("run_user_script", lastCall.out) <=> ~lastCall.pretend
        /\ lastCall.pretend =>
              /\ ~InTrace("subprocess", lastCall.out)
              /\ fs = lastCall.fsBefore
              /\ procs = lastCall.procsBefore
              /\ lastCall.out.raised = ""

\* A pretend run of a script that would have failed and touched a path.
C2_Witness ==
    /\ lastCall.fn = "Action.run"
    /\ lastCall.pretend
    /\ lastCall.script.exit # 0
    /\ lastCall.script.path # 0
    /\ lastCall.kwargs # {}

TryFns == {"try_run_internal_script", "try_get_script_output",
           "try_run_internal_subprocess", "try_get_subprocess_output"}

\* C3: on a nonzero exit run_user_script raises the user-script failure;
\* run_internal_script and get_script_output raise the internal-script
\* failure, a different kind; the try_ variants never raise and return the
\* exit code, alone or first in an (exit_code, text) pair. On a zero exit no
\* variant raises.
C3_FailureKinds ==
    LET o == lastCall.out IN
    /\ (lastCall.fn = "run_user_script" /\ lastCall.script.exit # 0) =>
          o.raised = "UserScriptException"
    /\ (lastCall.fn \in {"run_internal_script", "get_script_output"} /\ lastCall.script.exit # 0) =>
          o.raised = "InternalScriptException"
    /\ "UserScriptException" # "InternalScriptException"
    /\ lastCall.fn \in TryFns =>
          /\ o.raised = ""
          /\ o.ret.code = lastCall.script.exit
          /\ o.ret.kind = IF lastCall.fn \in {"try_get_script_output", "try_get_subprocess_output"}
                          THEN "tuple" ELSE "int"
    /\ (lastCall.fn # "" /\ lastCall.script.exit = 0) => o.raised = ""

\* A try_ variant returned a nonzero exit code.
C3_Witness ==
    /\ lastCall.fn = "try_run_internal_script"
    /\ lastCall.script.exit # 0
    /\ lastCall.out.ret.code = lastCall.script.exit

\* The clone and checkout attempts of the current run, in order.
Clones == SelectSeq(executed, LAMBDA e : e.op = "clone")
Checkouts == SelectSeq(executed, LAMBDA e : e.op = "checkout -b")

Rank(op) ==
    CASE op = "clone" -> 1
      [] op = "branch -m" -> 2
      [] op = "checkout -b" -> 3
      [] OTHER -> 4

SomeCloneOk == \E i \in 1 .. Len(executed) : executed[i].op = "clone" /\ executed[i].ok

\* The branch the claim expects the clone to end on.
ExpectedBranch ==
    IF "develop" \in originBranches THEN "develop"
    ELSE IF "master" \in originBranches THEN "master"
    ELSE Sentinel

\* C4: running CloneAction.script, the mirrors are tried in configured
\* priority order up to the first whose clone succeeds; then the default
\* branch is renamed to orchestra-temporary; then develop and master are
\* tried in that order up to the first checkout that succeeds; and whenever a
\* clone succeeded the script ends with success, on develop if origin/develop
\* exists, else on master if origin/master exists, else on the sentinel.
C4_CloneScript ==
    /\ Len(Clones) <= Len(remotes)
    /\ \A i \in 1 .. Len(Clones) :
          /\ Clones[i].mirror = remotes[i]
          /\ i < Len(Clones) => ~Clones[i].ok
    /\ \A i \in 1 .. Len(Checkouts) :
          /\ Checkouts[i].branch = branches[i]
          /\ i < Len(Checkouts) => ~Checkouts[i].ok
    /\ \A i, j \in 1 .. Len(executed) :
          i < j =>
            /\ Rank(executed[i].op) <= Rank(executed[j].op)
            /\ executed[i].ok => Rank(executed[i].op) < Rank(executed[j].op)
    /\ \A j \in 1 .. Len(executed) :
          (SomeCloneOk /\ Rank(executed[j].op) >= 3) =>
             \E i \in 1 .. j - 1 :
                /\ executed[i].op = "branch -m" /\ executed[i].ok
                /\ executed[i].branch = "orchestra-temporary"
    /\ (SomeCloneOk /\ sh.status \notin {"running", "crashed"}) =>
          /\ sh.status = "done"
          /\ sh.code = 0
          /\ current = ExpectedBranch

\* The first mirror failed, the second was cloned, and neither develop nor
\* master exists upstream: the run ended on the sentinel branch.
C4_Witness ==
    /\ sh.status = "done"
    /\ Len(Clones) = 2 /\ ~Clones[1].ok /\ Clones[2].ok
    /\ Len(Checkouts) = 2
    /\ current = Sentinel

\* C5: the public is_satisfied() of a CloneAction returns, without raising,
\* whether the target source directory exists.
C5_IsSatisfiedIsPresence ==
    satQuery.asked =>
        /\ satQuery.raised = ""
        /\ satQuery.value = satQuery.existed

C6_RemoteHeadLookup ==
    envHasSourceDir =>
    \A i \in Instances : \A k \in 1 .. Len(headLog[i]) :
        ~headLog[i][k].cached =>
            /\ headLog[i][k].raised = ""
            /\ headLog[i][k].value = headLog[i][k].expected

\* C7: once get_remote_head has returned, every later call of the instance
\* returns the same value without listing again, and the listing of a remote
\* runs at most once per instance (given an environment that defines
\* SOURCE_DIR).
C7_Memoized ==
    envHasSourceDir =>
    /\ \A key \in DOMAIN lsRuns : lsRuns[key] <= 1
    /\ \A i \in Instances : \A j, k \in 1 .. Len(headLog[i]) :
          (j < k /\ headLog[i][j].raised = "") =>
              /\ headLog[i][k].raised = ""
              /\ headLog[i][k].value = headLog[i][j].value
              /\ headLog[i][k].ran = <<>>

\* print_dependencies has returned.
Done == stack = <<>>

\* The actions reachable from the roots.
Reachable == Closure(roots)

\* Some action reachable from the roots depends, transitively, on itself.
CycleReachable == \E a \in Reachable : a \in Closure(gdeps[a])

Acyclic == \A a \in Nodes : a \notin Closure(gdeps[a])

NodeLines(a) ==
    { k \in 1 .. Len(printed) : \E c \in {Green, Orange, Red} : printed[k] = NodeRow(a, c) }

EdgeLines(d, a) == { k \in 1 .. Len(printed) : printed[k] = EdgeRow(d, a) }

AllEdgeLines == UNION { EdgeLines(d, a) : d \in Nodes, a \in Nodes }

\* D depends on B and C, which both depend on A.
Diamond ==
    [a \in Nodes |-> CASE a = 2 -> {1} [] a = 3 -> {1} [] a = 4 -> {2, 3} [] OTHER -> {}]

RECURSIVE TodoCount(_)
TodoCount(s) ==
    IF s = <<>> THEN 0 ELSE Cardinality(Head(s).todo) + TodoCount(Tail(s))

Measure ==
    Cardinality(Nodes \ already_visited_actions) * (NumNodes + 2)
        + TodoCount(stack) + Len(stack)

=============================================================================
